---- MODULE Spec2Model ----
(***************************************************************************)
(* Distance-field construction of pyLBM: Domain.__init__ (create_coords,   *)
(* box-label reclassification, __add_init, __add_elem) together with the   *)
(* Sphere element.                                                          *)
(*                                                                          *)
(* Lengths are integers counted in a length unit LU chosen so that every    *)
(* space step dx is an even number of units: cell centres lo + dx*(j+1/2)   *)
(* are then integers.  Distances (alpha, dvik) are exact rationals, kept as *)
(* reduced pairs <<numerator, denominator>>.  The planar (dim = 2) domain   *)
(* is modelled; a Sphere is given by its 3-coordinate center and the plane  *)
(* of the domain is z = 0.  Array indices are 0-based as in the source.     *)
(***************************************************************************)
EXTENDS Integers, Sequences, FiniteSets, TLC

VARIABLES
    pc,          \* position in the construction
    phys_box,    \* geom.bounds: <<lo, hi>> per axis
    geom_label,  \* geom.box_label: the user-supplied face labels
    dx,          \* space step
    stencil,     \* stencil.unique_velocities: sequence of velocity vectors
    topo,        \* mpi_topo: [nproc |-> per-axis worker count, coords |-> this worker]
    list_elem,   \* geom.list_elem: the Sphere objects constructed so far
    ctor,        \* outcome of the last Sphere construction
    query,       \* last Sphere.point_inside call: <<sphere, point, answer>>
    global_size, \* Domain.global_size
    coords_halo, \* Domain.coords_halo
    coords,      \* Domain.coords
    box_label,   \* Domain.box_label
    in_or_out,   \* Domain.in_or_out
    distance,    \* Domain.distance
    flag,        \* Domain.flag
    ielem        \* number of elements of list_elem already applied

vars == <<pc, phys_box, geom_label, dx, stencil, topo, list_elem, ctor, query,
          global_size, coords_halo, coords, box_label, in_or_out, distance,
          flag, ielem>>

(***************************************************************************)
(* Program constants                                                        *)
(***************************************************************************)
valin == 999
valout == -1
interface == -2
dim == 2

(***************************************************************************)
(* Bounds of the model                                                      *)
(***************************************************************************)
MaxElems == 2

(***************************************************************************)
(* Integer and rational helpers                                             *)
(***************************************************************************)
Abs(n) == IF n < 0 THEN -n ELSE n
Max2(a, b) == IF a >= b THEN a ELSE b
Min2(a, b) == IF a <= b THEN a ELSE b

RECURSIVE GCD(_, _)
GCD(a, b) == IF b = 0 THEN a ELSE GCD(b, a % b)

\* the rational n/d (d > 0) in lowest terms
Frac(n, d) == LET g == GCD(Abs(n), d) IN <<n \div g, d \div g>>
FLess(a, b) == a[1] * b[2] < b[1] * a[2]
FPos(a) == a[1] > 0
FVALIN == <<valin, 1>>
FONE == <<1, 1>>

\* integer square root: the largest s with s*s <= n (n >= 0), by bisection
\* of lo..hi, where lo*lo <= n < (hi+1)*(hi+1)
RECURSIVE ISqrtIn(_, _, _)
ISqrtIn(n, lo, hi) ==
    IF lo >= hi THEN lo
    ELSE LET mid == (lo + hi + 1) \div 2
         IN IF mid * mid <= n THEN ISqrtIn(n, mid, hi) ELSE ISqrtIn(n, lo, mid - 1)
ISqrt(n) == ISqrtIn(n, 0, n)
IsSquare(n) == n >= 0 /\ ISqrt(n) * ISqrt(n) = n

\* float -> int conversion of numpy (np.array(x, np.int)): truncation toward 0
TruncDiv(n, d) == IF n >= 0 THEN n \div d ELSE -((-n) \div d)

\* indices selected by the Python slice lo:hi on an axis of length n
PySliceBound(b, n) == IF b < 0 THEN Max2(b + n, 0) ELSE Min2(b, n)
PySlice(lo, hi, n) ==
    LET a == PySliceBound(lo, n)
        b == PySliceBound(hi, n)
    IN [j \in 1..Max2(b - a, 0) |-> a + j - 1]

\* np.linspace(start, stop, n)
linspace(start, stop, n) ==
    [j \in 1..n |-> IF n = 1 THEN start ELSE start + ((j - 1) * (stop - start)) \div (n - 1)]

SeqRange(s) == {s[j] : j \in 1..Len(s)}

(***************************************************************************)
(* Variants: each differs from the operator of the source in one point and  *)
(* is used only to show that a property depends on that point               *)
(***************************************************************************)
\* the candidate mask without the test alpha > 0
candidate_mask_any(sub, ab, ind_fluid, out_cells) ==
    {n \in sub : n \in ind_fluid /\ n \in out_cells}

\* a commit that leaves the flag as it was
commit_flag_none(flag1, ind, ab) == flag1

\* the reclassification with the two faces of each axis exchanged
modify_box_label_swapped(label, region, gsize) ==
    [f \in 1..(2 * dim) |->
        LET i == (f - 1) \div 2
        IN IF (f - 1) % 2 = 0
           THEN IF region[i + 1][2] # gsize[i + 1] THEN interface ELSE label[f]
           ELSE IF region[i + 1][1] # 0 THEN interface ELSE label[f]]

\* every face taken as a boundary
is_boundary_always(label, f) == TRUE

\* the validation loop without its early exit
validate_sizes_all(box, step, k) ==
    [d \in 1..dim |-> <<(box[d][2] - box[d][1]) \div step, 1>>]

\* a __str__ that reads no attribute
Sphere_str_blind(self) == "str"

\* the open ball
point_inside_open(e, p) ==
    LET v2 == <<p[1] - e.center[1], p[2] - e.center[2], p[3] - e.center[3]>>
    IN (v2[1] * v2[1] + v2[2] * v2[2] + v2[3] * v2[3]) < e.radius * e.radius

\* the override rule of a solid with "not larger" in place of "smaller"
accepts_not_larger(isfluid, alpha, d) ==
    IF ~isfluid THEN ~FLess(d, alpha) ELSE FLess(d, alpha) \/ d = FVALIN

(***************************************************************************)
(* Stencil: the velocity set with its per-axis maximal component            *)
(***************************************************************************)
\* k-th unique velocity component on axis d (stencil.uvx, uvy), k in 1..unvtot
uvel(st, d) == [k \in 1..Len(st) |-> st[k][d + 1]]

RECURSIVE MaxAbs(_, _)
MaxAbs(s, j) == IF j > Len(s) THEN 0 ELSE Max2(Abs(s[j]), MaxAbs(s, j + 1))

\* stencil.vmax: the maximal velocity in norm for each spatial direction
vmax(st) == [d \in 1..dim |-> MaxAbs(uvel(st, d - 1), 1)]

(***************************************************************************)
(* MPI topology: even-as-possible split of the global index range           *)
(***************************************************************************)
RECURSIVE region_index(_, _, _)
region_index(n, nproc, c) ==
    IF c = 0 THEN 0
    ELSE region_index(n, nproc, c - 1) + (n \div nproc)
         + (IF (n % nproc) > c - 1 THEN 1 ELSE 0)

\* mpi_topo.get_region(*global_size): <<first, last+1>> per axis
get_region(tp, gsize) ==
    [d \in 1..dim |-> <<region_index(gsize[d], tp.nproc[d], tp.coords[d]),
                        region_index(gsize[d], tp.nproc[d], tp.coords[d] + 1)>>]

(***************************************************************************)
(* Sphere                                                                   *)
(***************************************************************************)
Dot(u, v) == u[1] * v[1] + u[2] * v[2] + u[3] * v[3]
Sub(u, v) == <<u[1] - v[1], u[2] - v[2], u[3] - v[3]>>

\* Element.__init__(label, isfluid): stores isfluid and the label list
Element_init(self, label, isfluid) ==
    self @@ [label |-> <<label>>, isfluid |-> isfluid]

\* Sphere.__str__: reads center, radius and isfluid
Sphere_str(self) ==
    IF {"center", "radius", "isfluid"} \subseteq DOMAIN self
    THEN "str" ELSE "AttributeError"

\* Sphere.__init__: the attributes set when the constructor body ends, and
\* whether it returned or raised
Sphere_init(center, radius, label, isfluid) ==
    LET self0 == [number_of_bounds |-> 1, center |-> center]
        self1 == IF radius >= 0 THEN self0 @@ [radius |-> radius]
                 ELSE self0                \* log.error only
        self2 == Element_init(self1, label, isfluid)
    IN [self |-> self2, raised |-> Sphere_str(self2) = "AttributeError"]

\* Sphere.get_bounds
get_bounds(e) ==
    <<[d \in 1..3 |-> e.center[d] - e.radius], [d \in 1..3 |-> e.center[d] + e.radius]>>

\* Sphere.point_inside for one point p = <<x, y, z>>
point_inside(e, p) ==
    LET v2 == <<p[1] - e.center[1], p[2] - e.center[2], p[3] - e.center[3]>>
    IN (v2[1] * v2[1] + v2[2] * v2[2] + v2[3] * v2[3]) <= e.radius * e.radius

\* discriminant (over 4) of |p + t v - center|^2 = radius^2
Disc(e, p, v) ==
    LET X == Sub(p, e.center)
    IN Dot(X, v) * Dot(X, v) - Dot(v, v) * (Dot(X, X) - e.radius * e.radius)

\* Sphere.distance for one point: <<alpha, border>>, alpha = -1 when there is
\* no root in (0, dmax]
FNONE == <<-1, 1>>
sphere_distance(e, p, v, dmax) ==
    LET X == Sub(p, e.center)
        a == Dot(v, v)
        b == Dot(X, v)
        delta == Disc(e, p, v)
        s == ISqrt(delta)
        d1 == Frac(-b - s, a)
        d2 == Frac(-b + s, a)
        d == IF d1[1] >= 0 THEN d1 ELSE IF d2[1] >= 0 THEN d2 ELSE FNONE
    IN IF delta < 0 THEN <<FNONE, -1>>
       ELSE IF FPos(d) /\ ~FLess(dmax, d) THEN <<d, e.label[1]>>
       ELSE <<FNONE, -1>>


(***************************************************************************)
(* Cylinder (Cylinder_Circle), in the plane through its axis spanned by v1  *)
(* and w: the points have y = center[1] and the directions have v[2] = 0.   *)
(* v1, v2 and w lie along the axes x, y, z, so that iA is diagonal:         *)
(* x_cyl = X / v1[1], z_cyl = Z / w[3].                                     *)
(***************************************************************************)
\* the rational n/d for d # 0
Frac2(n, d) == IF d < 0 THEN Frac(-n, -d) ELSE Frac(n, d)

\* 1.e16, the value that stands for "no intersection": above every distance
FINF == <<1, 0>>

Cylinder_Circle(center, v1, v2, w, label, isfluid) ==
    [center |-> center, v1 |-> v1, v2 |-> v2, w |-> w, label |-> label,
     isfluid |-> isfluid, number_of_bounds |-> 3]

\* Base_Circle.point_inside at the point (n/d, 0) of the frame of the cylinder
Base_point_inside(n, d) == n * n <= d * d

\* Base_Circle.distance at the point (X/a, 0) in the direction (vx/a, 0):
\* the smallest t in (0, dmax] with |X + t*vx| = a, and the label of the edge
Base_distance(a, X, vx, dmax, label) ==
    LET roots == IF vx = 0 THEN {} ELSE {Frac2(a - X, vx), Frac2(-a - X, vx)}
        valid == {t \in roots : FPos(t) /\ ~FLess(dmax, t)}
    IN IF valid = {} THEN <<FNONE, -1>>
       ELSE <<CHOOSE t \in valid : \A u \in valid : ~FLess(u, t), label[1]>>

\* intersection with the plane z_cyl = +1 (num = h - Z) or z_cyl = -1
\* (num = -(h + Z)): alpha = num / (vz + decal), 1.e16 when alpha < 0 or when
\* the point of the plane is outside the base
plane_distance(a, X, vx, vz, num) ==
    IF vz # 0
    THEN LET t == Frac2(num, vz)
         IN IF t[1] < 0 \/ ~Base_point_inside(X * t[2] + t[1] * vx, a * t[2])
            THEN FINF ELSE t
    ELSE \* decal = 1.e-16: alpha = num * 1.e16, far outside the base when
         \* num > 0 (vx # 0), negative when num < 0
         IF num = 0 /\ Base_point_inside(X, a) THEN <<0, 1>> ELSE FINF

\* Cylinder.distance for one point: <<alpha, border>>
Cylinder_distance(c, p, v, dmax) ==
    LET a == c.v1[1]
        h == c.w[3]
        X == p[1] - c.center[1]
        Z == p[3] - c.center[3]
        vx == v[1]
        vz == v[3]
        n == Len(c.label)
        lat == Base_distance(a, X, vx, dmax, SubSeq(c.label, 1, n - 2))
        alpha0 == IF lat[1][1] < 0 THEN FINF ELSE lat[1]
        toohigh == /\ alpha0 # FINF /\ FPos(alpha0)
                   /\ Abs(Z * alpha0[2] + alpha0[1] * vz) > h * alpha0[2]
        alpha1 == IF toohigh THEN FINF ELSE alpha0
        border1 == IF toohigh \/ alpha0 = FINF THEN -1 ELSE lat[2]
        alpha_top == plane_distance(a, X, vx, vz, h - Z)
        alpha_bot == plane_distance(a, X, vx, vz, -(h + Z))
        m == IF FLess(alpha_top, alpha1) THEN alpha_top ELSE alpha1
        alpha == IF FLess(alpha_bot, m) THEN alpha_bot ELSE m
        border2 == IF alpha = alpha_top THEN c.label[n] ELSE border1
        border3 == IF alpha = alpha_bot THEN c.label[n - 1] ELSE border2
    IN <<IF alpha = FINF THEN FNONE ELSE alpha, border3>>

(***************************************************************************)
(* Domain: coordinates                                                      *)
(***************************************************************************)
\* create_coords, validation loop: global_size as left by the loop, which
\* stops (sys.exit) at the first axis whose length is no multiple of dx
RECURSIVE validate_sizes(_, _, _)
validate_sizes(box, step, k) ==
    IF k > dim THEN <<>>
    ELSE LET g == Frac(box[k][2] - box[k][1], step)
         IN IF g[2] # 1 THEN <<g>>
            ELSE <<g>> \o validate_sizes(box, step, k + 1)

is_integer(g) == g[2] = 1

\* create_coords, spatial mesh: coords_halo for the region of this worker
halo_coords(box, step, st, region) ==
    [k \in 1..dim |->
        LET h == vmax(st)[k]
            halo_beg2 == step * (2 * h - 1)          \* 2 * dx * (h - 0.5)
            start2 == 2 * (box[k][1] + step * region[k][1]) - halo_beg2
            stop2 == 2 * (box[k][1] + step * region[k][2]) + halo_beg2
            n == (region[k][2] - region[k][1]) + 2 * h
            l2 == linspace(start2, stop2, n)
        IN [j \in 1..n |-> l2[j] \div 2]]

\* coords[k] = coords_halo[k][halo_size[k]:-halo_size[k]]: the selected indices
phys_slice(st, ch) ==
    [k \in 1..dim |-> PySlice(vmax(st)[k], -vmax(st)[k], Len(ch[k]))]

shape_halo(ch) == [k \in 1..dim |-> Len(ch[k])]
shape_in(co) == [k \in 1..dim |-> Len(co[k])]

\* the nodes of the halo-padded array, 0-based index pairs
Nodes(ch) == (0..(Len(ch[1]) - 1)) \X (0..(Len(ch[2]) - 1))

\* box_label after "Modify box_label if the border becomes an interface"
modify_box_label(label, region, gsize) ==
    [f \in 1..(2 * dim) |->
        LET i == (f - 1) \div 2
        IN IF (f - 1) % 2 = 0
           THEN IF region[i + 1][1] # 0 THEN interface ELSE label[f]
           ELSE IF region[i + 1][2] # gsize[i + 1] THEN interface ELSE label[f]]

(***************************************************************************)
(* Domain.__add_init: distance and flag of the primary box                  *)
(***************************************************************************)
\* in_or_out after "in_or_out[:] = valout; in_view[:] = valin"
init_in_or_out(ch, P) ==
    [n \in Nodes(ch) |->
        IF n[1] \in SeqRange(P[1]) /\ n[2] \in SeqRange(P[2]) THEN valin ELSE valout]

\* "label[2*iuv] != -2": the face f (0-based) is a boundary of the domain,
\* not an interface with another worker
is_boundary(label, f) == label[f + 1] # interface

\* the (k, i) iterations of the loops on one axis iuv, in loop order: each
\* gives the velocity k, the index into the view along iuv (negative as
\* written in the source for vk > 0), dvik and the face label
layer_writes(st, label, iuv, k) ==
    LET vk == uvel(st, iuv)[k]
    IN IF vk < 0 /\ is_boundary(label, 2 * iuv)
       THEN [j \in 1..(-vk) |->
                [k |-> k, iuv |-> iuv, index |-> j - 1,
                 dvik |-> Frac(2 * (j - 1) + 1, 2 * (-vk)),
                 label |-> label[2 * iuv + 1]]]
       ELSE IF vk > 0 /\ is_boundary(label, 2 * iuv + 1)
       THEN [j \in 1..vk |->
                [k |-> k, iuv |-> iuv, index |-> -(j - 1) - 1,
                 dvik |-> Frac(2 * (j - 1) + 1, 2 * vk),
                 label |-> label[2 * iuv + 2]]]
       ELSE <<>>

RECURSIVE axis_writes(_, _, _, _)
axis_writes(st, label, iuv, k) ==
    IF k > Len(st) THEN <<>>
    ELSE layer_writes(st, label, iuv, k) \o axis_writes(st, label, iuv, k + 1)

RECURSIVE box_writes(_, _, _)
box_writes(st, label, iuv) ==
    IF iuv >= dim THEN <<>>
    ELSE axis_writes(st, label, iuv, 1) \o box_writes(st, label, iuv + 1)

\* position in the halo-padded array of index `index` of the view along axis
\* iuv; -1 when the index is out of the bounds of the view (IndexError)
view_index(P, iuv, index) ==
    LET n == Len(P[iuv + 1])
        j == IF index < 0 THEN index + n ELSE index
    IN IF j < 0 \/ j >= n THEN -1 ELSE P[iuv + 1][j + 1]

\* nodes of the view of the physical domain
dist_nodes(P) == SeqRange(P[1]) \X SeqRange(P[2])

\* variant of new_indices: the whole layer, without the test dist_view > dvik
new_indices_whole_layer(P, w, dist) ==
    LET pos == view_index(P, w.iuv, w.index)
    IN {n \in dist_nodes(P) : n[w.iuv + 1] = pos}

\* nodes of the layer selected by a write: those of new_indices, i.e. the
\* nodes of the view with that index along iuv where dist_view > dvik
new_indices(P, w, dist) ==
    LET pos == view_index(P, w.iuv, w.index)
    IN {n \in dist_nodes(P) : n[w.iuv + 1] = pos /\ FLess(w.dvik, dist[w.k][n])}

\* one iteration: dist_view[nind] = dvik; flag_view[nind] = label
apply_write(P, w, df) ==
    IF df.error \/ view_index(P, w.iuv, w.index) = -1
    THEN [df EXCEPT !.error = TRUE]
    ELSE LET nind == new_indices(P, w, df.distance)
         IN [distance |-> [df.distance EXCEPT ![w.k] =
                              [n \in DOMAIN @ |-> IF n \in nind THEN w.dvik ELSE @[n]]],
             flag |-> [df.flag EXCEPT ![w.k] =
                              [n \in DOMAIN @ |-> IF n \in nind THEN w.label ELSE @[n]]],
             error |-> FALSE]

RECURSIVE apply_writes(_, _, _, _)
apply_writes(P, ws, j, df) ==
    IF j > Len(ws) THEN df ELSE apply_writes(P, ws, j + 1, apply_write(P, ws[j], df))

\* __add_init(label) on freshly allocated fields
add_init(st, ch, label, dist0, flag0) ==
    LET P == phys_slice(st, ch)
    IN apply_writes(P, box_writes(st, label, 0), 1,
                    [distance |-> dist0, flag |-> flag0, error |-> FALSE])

(***************************************************************************)
(* Domain.__add_elem                                                        *)
(***************************************************************************)
\* coordinates of a node of the halo-padded array, in the plane z = 0
point(ch, n) == <<ch[1][n[1] + 1], ch[2][n[2] + 1], 0>>

\* variant of the box around the element: without the vmax safety points
elem_box_tight(st, ch, co, step, e) ==
    LET elem_bl == get_bounds(e)[1]
        elem_ur == get_bounds(e)[2]
        nmin == [d \in 1..dim |->
                    Max2(vmax(st)[d], TruncDiv(elem_bl[d] - ch[d][1], step))]
        nmax == [d \in 1..dim |->
                    Min2(vmax(st)[d] + shape_in(co)[d],
                         TruncDiv(elem_ur[d] - ch[d][1], step) + 1)]
    IN <<nmin, nmax>>

\* variant of the box around the element: bounded by the halo-padded array,
\* not by the interior
elem_box_unclipped(st, ch, co, step, e) ==
    LET elem_bl == get_bounds(e)[1]
        elem_ur == get_bounds(e)[2]
        nmin == [d \in 1..dim |->
                    Max2(0, TruncDiv(elem_bl[d] - ch[d][1], step) - vmax(st)[d])]
        nmax == [d \in 1..dim |->
                    Min2(Len(ch[d]),
                         TruncDiv(elem_ur[d] - ch[d][1], step) + vmax(st)[d] + 1)]
    IN <<nmin, nmax>>

\* "the box around the element adding vmax safety points": <<nmin, nmax>>
elem_box(st, ch, co, step, e) ==
    LET elem_bl == get_bounds(e)[1]
        elem_ur == get_bounds(e)[2]
        nmin == [d \in 1..dim |->
                    Max2(vmax(st)[d],
                         TruncDiv(elem_bl[d] - ch[d][1], step) - vmax(st)[d])]
        nmax == [d \in 1..dim |->
                    Min2(vmax(st)[d] + shape_in(co)[d],
                         TruncDiv(elem_ur[d] - ch[d][1], step) + vmax(st)[d] + 1)]
    IN <<nmin, nmax>>

\* space_slice shifted by the velocity vk (vk = <<0, 0>> gives space_slice)
space_slice(ch, nb, vk) ==
    [d \in 1..dim |-> PySlice(nb[1][d] + vk[d], nb[2][d] + vk[d], Len(ch[d]))]

slice_nodes(S) == SeqRange(S[1]) \X SeqRange(S[2])
same_shape(S, T) == \A d \in 1..dim : Len(S[d]) = Len(T[d])
broadcastable(S, T) ==
    \A d \in 1..dim : Len(S[d]) = Len(T[d]) \/ Len(S[d]) = 1 \/ Len(T[d]) = 1

\* node of the slice T at the position that n has in the slice S
shifted(S, T, n) == <<T[1][n[1] - S[1][1] + 1], T[2][n[2] - S[2][1] + 1]>>

\* nodes of the sub-grid inside the element (elem.point_inside(grid))
inside(ch, S, e) == {n \in slice_nodes(S) : point_inside(e, point(ch, n))}

\* variant of the occupancy update: a fluid element writes nothing
set_in_or_out_solid_only(ioo, ins, e) ==
    [n \in DOMAIN ioo |-> IF n \in ins /\ ~e.isfluid THEN valout ELSE ioo[n]]

\* in_or_out after "ioo_view[ind_solid] = valout" / "ioo_view[ind_fluid] = valin"
set_in_or_out(ioo, ins, e) ==
    [n \in DOMAIN ioo |->
        IF n \in ins THEN (IF e.isfluid THEN valin ELSE valout) ELSE ioo[n]]

\* variant of the override rule: a fluid element writes only over the sentinel
accepts_fluid_sentinel_only(isfluid, alpha, d) ==
    IF ~isfluid THEN FLess(alpha, d) ELSE d = FVALIN

\* the override rule: is alpha taken in place of the stored value d
accepts(isfluid, alpha, d) ==
    IF ~isfluid THEN FLess(alpha, d) ELSE FLess(d, alpha) \/ d = FVALIN

\* indx = alpha > 0 and ind_fluid and out_cells
candidate_mask(sub, ab, ind_fluid, out_cells) ==
    {n \in sub : FPos(ab[n][1]) /\ n \in ind_fluid /\ n \in out_cells}

\* dist_view[k][ind] = alpha[ind]
commit_distance(dist1, ind, ab) ==
    [n \in DOMAIN dist1 |-> IF n \in ind THEN ab[n][1] ELSE dist1[n]]

\* flag_view[k][ind] = border[ind]
commit_flag(flag1, ind, ab) ==
    [n \in DOMAIN flag1 |-> IF n \in ind THEN ab[n][2] ELSE flag1[n]]

\* variant of the iteration: a fluid element resets no entry (no borderToInt)
velocity_step_no_fluid_reset(ch, step, S, T, e, ioo, ins, vk, distk, flagk) ==
    LET sub == slice_nodes(S)
        ind_fluid == IF e.isfluid THEN ins ELSE sub \ ins
        ind_solid == sub \ ind_fluid
        out_cells == {n \in sub : ioo[shifted(S, T, n)] = valout}
        ab == [n \in sub |->
                 sphere_distance(e, point(ch, n), <<step * vk[1], step * vk[2], 0>>, FONE)]
        indx == candidate_mask(sub, ab, ind_fluid, out_cells)
        reset == IF e.isfluid THEN {} ELSE ind_solid
        dist1 == [n \in DOMAIN distk |-> IF n \in reset THEN FVALIN ELSE distk[n]]
        flag1 == [n \in DOMAIN flagk |-> IF n \in reset THEN valin ELSE flagk[n]]
        ind == {n \in indx : accepts(e.isfluid, ab[n][1], dist1[n])}
    IN [distance |-> commit_distance(dist1, ind, ab),
        flag |-> commit_flag(flag1, ind, ab)]

\* one iteration of the loop over the velocities (vk # 0) with shapes that
\* agree: the new distance[k] and flag[k]
velocity_step(ch, step, S, T, e, ioo, ins, vk, distk, flagk) ==
    LET sub == slice_nodes(S)
        ind_fluid == IF e.isfluid THEN ins ELSE sub \ ins
        ind_solid == sub \ ind_fluid
        out_cells == {n \in sub : ioo[shifted(S, T, n)] = valout}
        ab == [n \in sub |->
                 sphere_distance(e, point(ch, n), <<step * vk[1], step * vk[2], 0>>, FONE)]
        indx == candidate_mask(sub, ab, ind_fluid, out_cells)
        reset == IF e.isfluid
                 THEN {n \in sub : n \notin out_cells /\ ioo[n] = valin}
                 ELSE ind_solid
        dist1 == [n \in DOMAIN distk |-> IF n \in reset THEN FVALIN ELSE distk[n]]
        flag1 == [n \in DOMAIN flagk |-> IF n \in reset THEN valin ELSE flagk[n]]
        ind == {n \in indx : accepts(e.isfluid, ab[n][1], dist1[n])}
    IN [distance |-> commit_distance(dist1, ind, ab),
        flag |-> commit_flag(flag1, ind, ab)]

\* one iteration with out_cells of another shape than the sub-grid, where
\* numpy still broadcasts: every mask built on out_cells is empty
velocity_step_broadcast(S, e, ins, distk, flagk) ==
    LET reset == IF e.isfluid THEN {} ELSE ins
    IN [distance |-> [n \in DOMAIN distk |-> IF n \in reset THEN FVALIN ELSE distk[n]],
        flag |-> [n \in DOMAIN flagk |-> IF n \in reset THEN valin ELSE flagk[n]]]

\* does the iteration for velocity vk raise (shapes that cannot be combined)
velocity_raises(S, T, e) ==
    /\ ~same_shape(S, T)
    /\ \/ ~broadcastable(S, T)
       \/ e.isfluid /\ \E d \in 1..dim : Len(T[d]) < Len(S[d])

NonZero(vk) == \E d \in 1..dim : vk[d] # 0

\* variant of __add_elem: out_cells read from the occupancy as it was before
\* the element was put in it
add_elem_stale_occupancy(st, ch, co, step, e, ioo0, dist0, flag0) ==
    LET nb == elem_box(st, ch, co, step, e)
        S == space_slice(ch, nb, <<0, 0>>)
        ins == inside(ch, S, e)
        T(k) == space_slice(ch, nb, st[k])
        raising == {k \in 1..Len(st) : NonZero(st[k]) /\ velocity_raises(S, T(k), e)}
        res == [k \in 1..Len(st) |->
                  IF ~NonZero(st[k]) \/ (\E j \in raising : j <= k)
                  THEN [distance |-> dist0[k], flag |-> flag0[k]]
                  ELSE IF same_shape(S, T(k))
                  THEN velocity_step(ch, step, S, T(k), e, ioo0, ins, st[k],
                                     dist0[k], flag0[k])
                  ELSE velocity_step_broadcast(S, e, ins, dist0[k], flag0[k])]
    IN [in_or_out |-> set_in_or_out(ioo0, ins, e),
        distance |-> [k \in 1..Len(st) |-> res[k].distance],
        flag |-> [k \in 1..Len(st) |-> res[k].flag],
        error |-> raising # {}]

\* __add_elem(elem)
add_elem(st, ch, co, step, e, ioo0, dist0, flag0) ==
    LET nb == elem_box(st, ch, co, step, e)
        S == space_slice(ch, nb, <<0, 0>>)
        ins == inside(ch, S, e)
        ioo == set_in_or_out(ioo0, ins, e)
        T(k) == space_slice(ch, nb, st[k])
        raising == {k \in 1..Len(st) : NonZero(st[k]) /\ velocity_raises(S, T(k), e)}
        res == [k \in 1..Len(st) |->
                  IF ~NonZero(st[k]) \/ (\E j \in raising : j <= k)
                  THEN [distance |-> dist0[k], flag |-> flag0[k]]
                  ELSE IF same_shape(S, T(k))
                  THEN velocity_step(ch, step, S, T(k), e, ioo, ins, st[k],
                                     dist0[k], flag0[k])
                  ELSE velocity_step_broadcast(S, e, ins, dist0[k], flag0[k])]
    IN [in_or_out |-> ioo,
        distance |-> [k \in 1..Len(st) |-> res[k].distance],
        flag |-> [k \in 1..Len(st) |-> res[k].flag],
        error |-> raising # {}]

\* get_bounds_halo reads coords_halo[k][0]: an IndexError on an empty axis
add_elem_raises(ch) == \E d \in 1..dim : Len(ch[d]) = 0

(***************************************************************************)
(* Inputs                                                                   *)
(***************************************************************************)
St_x == << <<1, 0>> >>
St_q5 == << <<0, 0>>, <<1, 0>>, <<0, 1>>, <<-1, 0>>, <<0, -1>> >>
St_w == << <<1, 1>>, <<-2, 0>>, <<-1, 2>> >>
StencilSet == {St_x, St_q5, St_w}

Box(hx, hy) == << <<0, hx>>, <<0, hy>> >>
Single == [nproc |-> <<1, 1>>, coords |-> <<0, 0>>]
SplitSet == {[nproc |-> <<2, 1>>, coords |-> <<0, 0>>],
             [nproc |-> <<2, 1>>, coords |-> <<1, 0>>],
             [nproc |-> <<1, 2>>, coords |-> <<0, 1>>]}
LabelSet == {<<1, 2, 3, 4>>}

\* the runs: [box, step, st, tp]; one worker on every box and step, and the
\* box [0,8]x[0,8] with step 2 split between two workers along x or y
SingleRuns ==
    {[box |-> b, step |-> h, st |-> st, tp |-> Single] :
        b \in {Box(8, 8), Box(8, 4), Box(4, 8), Box(5, 8), Box(8, 5), Box(5, 5)},
        h \in {2, 4}, st \in StencilSet}
SplitRuns ==
    {[box |-> Box(8, 8), step |-> 2, st |-> st, tp |-> tp] :
        st \in StencilSet, tp \in SplitSet}
RunSet == SingleRuns \cup SplitRuns

\* the spheres the caller may build: <<center, radius>>
SphereSet == {<< <<3, 3, 0>>, 2 >>, << <<1, 3, 0>>, 1 >>, << <<1, 3, 0>>, 2 >>,
              << <<4, 4, 0>>, 1 >>, << <<-5, 3, 0>>, 1 >>, << <<3, 3, 0>>, 0 >>,
              << <<3, 3, 0>>, -1 >>, << <<4, 2, 0>>, 1 >>, << <<6, 2, 0>>, 1 >>,
              << <<3, 3, 0>>, 1 >>, << <<5, 3, 0>>, 1 >>}
\* the label given to the j-th element built
ElemLabels == <<10, 11, 12>>

\* the points a caller asks Sphere.point_inside about
PointSet == {<<x, y, z>> : x \in 0..5, y \in 1..5, z \in {0, 2}}

\* cylinders, query points in the plane y = 0 and directions
CylinderLabels == <<21, 22, 23>>
CylinderSet ==
    {Cylinder_Circle(<<0, 0, 0>>, <<2, 0, 0>>, <<0, 2, 0>>, <<0, 0, 2>>, CylinderLabels, FALSE),
     Cylinder_Circle(<<1, 0, 0>>, <<1, 0, 0>>, <<0, 1, 0>>, <<0, 0, 2>>, CylinderLabels, FALSE)}
CylinderPoints == {<<x, 0, z>> : x \in -3..3, z \in -3..3}
CylinderDirections == {<<vx, 0, vz>> : vx \in -1..2, vz \in -1..2} \ {<<0, 0, 0>>}

\* the coordinates a node can have on axis d for a box and a step
CellCentres(box, step, d) ==
    {x \in (box[d][1] - 3 * step)..(box[d][2] + 3 * step) :
        (2 * (x - box[d][1]) - step) % (2 * step) = 0}

\* the roots of the ray equation of e are rational from every node and for
\* every velocity: the arithmetic of sphere_distance is then exact
IrrationalRoots(e, box, step, st) ==
    {q \in CellCentres(box, step, 1) \X CellCentres(box, step, 2) \X (1..Len(st)) :
        LET delta == Disc(e, <<q[1], q[2], 0>>,
                          <<step * st[q[3]][1], step * st[q[3]][2], 0>>)
        IN delta >= 0 /\ ~IsSquare(delta)}
ExactRoots(e, box, step, st) == IrrationalRoots(e, box, step, st) = {}

(***************************************************************************)
(* The construction as a state machine                                      *)
(***************************************************************************)
NoField == <<>>

Init ==
    /\ pc = "geom"
    /\ phys_box = <<>> /\ geom_label = <<>> /\ dx = 0 /\ stencil = <<>>
    /\ topo = [nproc |-> <<>>, coords |-> <<>>]
    /\ list_elem = <<>>
    /\ ctor = [called |-> FALSE, radius |-> 0, raised |-> FALSE, self |-> <<>>]
    /\ query = <<>>
    /\ global_size = <<>> /\ coords_halo = <<>> /\ coords = <<>>
    /\ box_label = <<>>
    /\ in_or_out = NoField /\ distance = NoField /\ flag = NoField
    /\ ielem = 0

\* the caller builds an element of the geometry: Sphere(center, radius, label, isfluid)
NewSphere(center, radius, isfluid) ==
    /\ pc = "geom"
    /\ Len(list_elem) < MaxElems
    /\ LET r == Sphere_init(center, radius, ElemLabels[Len(list_elem) + 1], isfluid)
       IN /\ ctor' = [called |-> TRUE, radius |-> radius, raised |-> r.raised,
                      self |-> r.self]
          /\ IF r.raised
             THEN pc' = "raised" /\ UNCHANGED list_elem
             ELSE pc' = pc /\ list_elem' = Append(list_elem, r.self)
    /\ UNCHANGED <<phys_box, geom_label, dx, stencil, topo, query, global_size,
                   coords_halo, coords, box_label, in_or_out, distance, flag, ielem>>

\* the caller asks the last element built whether a point is inside it
PointInside(p) ==
    /\ pc = "geom"
    /\ list_elem # <<>>
    /\ LET e == list_elem[Len(list_elem)]
       IN query' = <<e, p, point_inside(e, p)>>
    /\ pc' = "query"
    /\ UNCHANGED <<phys_box, geom_label, dx, stencil, topo, list_elem, ctor, global_size,
                   coords_halo, coords, box_label, in_or_out, distance, flag, ielem>>

\* the caller asks a cylinder for the distance of a point in a direction,
\* with dmax = 1 as Domain does
CylinderDistance(c, p, v) ==
    /\ pc = "geom"
    /\ list_elem = <<>>
    /\ query' = <<c, p, v, Cylinder_distance(c, p, v, FONE)>>
    /\ pc' = "cyl_query"
    /\ UNCHANGED <<phys_box, geom_label, dx, stencil, topo, list_elem, ctor, global_size,
                   coords_halo, coords, box_label, in_or_out, distance, flag, ielem>>

\* Domain.__init__ up to and including create_coords()
CreateCoords(box, label, step, st, tp) ==
    /\ pc = "geom"
    /\ \A j \in 1..Len(list_elem) : ExactRoots(list_elem[j], box, step, st)
    /\ phys_box' = box /\ geom_label' = label /\ dx' = step /\ stencil' = st
    /\ topo' = tp
    /\ box_label' = label
    /\ LET gs == validate_sizes(box, step, 1)
       IN /\ global_size' = gs
          /\ IF ~is_integer(gs[Len(gs)])
             THEN pc' = "exit" /\ UNCHANGED <<coords_halo, coords>>
             ELSE LET size == [d \in 1..dim |-> gs[d][1]]
                      ch == halo_coords(box, step, st, get_region(tp, size))
                      P == phys_slice(st, ch)
                  IN /\ coords_halo' = ch
                     /\ coords' = [d \in 1..dim |-> [j \in 1..Len(P[d]) |-> ch[d][P[d][j] + 1]]]
                     /\ pc' = "region"
    /\ UNCHANGED <<list_elem, ctor, query, in_or_out, distance, flag, ielem>>

\* Domain.__init__: box_label of the interfaces, allocation of the fields
ModifyLabels ==
    /\ pc = "region"
    /\ LET size == [d \in 1..dim |-> global_size[d][1]]
       IN box_label' = modify_box_label(box_label, get_region(topo, size), size)
    /\ in_or_out' = [n \in Nodes(coords_halo) |-> valin]
    /\ distance' = [k \in 1..Len(stencil) |-> [n \in Nodes(coords_halo) |-> FVALIN]]
    /\ flag' = [k \in 1..Len(stencil) |-> [n \in Nodes(coords_halo) |-> valin]]
    /\ pc' = "add_init"
    /\ UNCHANGED <<phys_box, geom_label, dx, stencil, topo, list_elem, ctor, query,
                   global_size, coords_halo, coords, ielem>>

\* Domain.__init__: self.__add_init(self.box_label)
AddInit ==
    /\ pc = "add_init"
    /\ \E r \in {add_init(stencil, coords_halo, box_label, distance, flag)} :
          /\ in_or_out' = init_in_or_out(coords_halo, phys_slice(stencil, coords_halo))
          /\ distance' = r.distance
          /\ flag' = r.flag
          /\ pc' = IF r.error THEN "error" ELSE "add_elem"
    /\ UNCHANGED <<phys_box, geom_label, dx, stencil, topo, list_elem, ctor, query,
                   global_size, coords_halo, coords, box_label, ielem>>

\* Domain.__init__: one iteration of "for elem in self.geom.list_elem"
AddElem ==
    /\ pc = "add_elem"
    /\ ielem < Len(list_elem)
    /\ IF add_elem_raises(coords_halo)
       THEN pc' = "error" /\ UNCHANGED <<in_or_out, distance, flag>>
       ELSE \E r \in {add_elem(stencil, coords_halo, coords, dx, list_elem[ielem + 1],
                               in_or_out, distance, flag)} :
               /\ in_or_out' = r.in_or_out
               /\ distance' = r.distance
               /\ flag' = r.flag
               /\ pc' = IF r.error THEN "error" ELSE "add_elem"
    /\ ielem' = ielem + 1
    /\ UNCHANGED <<phys_box, geom_label, dx, stencil, topo, list_elem, ctor, query,
                   global_size, coords_halo, coords, box_label>>

Next ==
    \/ \E a \in SphereSet, f \in BOOLEAN : NewSphere(a[1], a[2], f)
    \/ \E p \in PointSet : PointInside(p)
    \/ \E c \in CylinderSet, p \in CylinderPoints, v \in CylinderDirections :
          CylinderDistance(c, p, v)
    \/ \E run \in RunSet, label \in LabelSet :
          CreateCoords(run.box, label, run.step, run.st, run.tp)
    \/ ModifyLabels
    \/ AddInit
    \/ AddElem

Spec == Init /\ [][Next]_vars

(***************************************************************************)
(* Vocabulary of the properties                                             *)
(***************************************************************************)
\* Phase A is done and every shape applied so far was applied completely
Seeded == pc = "add_elem"

Velocities == 1..Len(stencil)
AllNodes == Nodes(coords_halo)

\* the nodes the worker owns: the halo-padded array without vmax layers on
\* each side of each axis
First(d) == vmax(stencil)[d]
Last(d) == Len(coords_halo[d]) - 1 - vmax(stencil)[d]
Interior == {n \in AllNodes : \A d \in 1..dim : First(d) <= n[d] /\ n[d] <= Last(d)}

\* labels of the shapes applied so far
AppliedLabels == UNION {SeqRange(list_elem[j].label) : j \in 1..ielem}

InUnitInterval(a) == FPos(a) /\ ~FLess(FONE, a)
FMin(a, b) == IF FLess(b, a) THEN b ELSE a

\* faces (1-based positions in box_label) through which the step from node n
\* along velocity k leaves the owned nodes
Crossed(n, k) ==
    {2 * d : d \in {j \in 1..dim : stencil[k][j] > 0 /\ n[j] + stencil[k][j] > Last(j)}}
    \cup {2 * d - 1 : d \in {j \in 1..dim : stencil[k][j] < 0 /\ n[j] + stencil[k][j] < First(j)}}

(***************************************************************************)
(* C1                                                                       *)
(***************************************************************************)
\* C1: after Phase A and after every completely applied shape, every node
\* whose occupancy is OUT holds the IN-sentinel in distance[k], for every
\* velocity k.
C1_OutHasSentinel ==
    Seeded => \A k \in Velocities : \A n \in AllNodes :
                 in_or_out[n] = valout => distance[k][n] = FVALIN

(***************************************************************************)
(* C2                                                                       *)
(***************************************************************************)
\* C2: after Phase A and after any sequence of shapes, every distance entry
\* is the IN-sentinel or lies in the half-open interval (0, 1].
C2_DistanceRange ==
    Seeded => \A k \in Velocities : \A n \in AllNodes :
                 distance[k][n] = FVALIN \/ InUnitInterval(distance[k][n])

\* a shape has left the value 1 at one link and a value below 1 at another
C2_Witness ==
    /\ Seeded /\ ielem >= 1
    /\ \E k \in Velocities : \E n \in AllNodes :
          distance[k][n] = FONE /\ flag[k][n] \in AppliedLabels
    /\ \E k \in Velocities : \E n \in AllNodes :
          FLess(distance[k][n], FONE) /\ flag[k][n] \in AppliedLabels

(***************************************************************************)
(* C3                                                                       *)
(***************************************************************************)
\* C3: wherever distance[k] is not the sentinel, flag[k] is one of the box
\* face labels (as reclassified) or a label of a shape applied so far.
C3_FlagIsKnownLabel ==
    Seeded => \A k \in Velocities : \A n \in AllNodes :
                 distance[k][n] # FVALIN
                    => flag[k][n] \in SeqRange(box_label) \cup AppliedLabels

\* both kinds of label are in use after a shape: a box label and a shape label
C3_Witness ==
    /\ Seeded /\ ielem >= 1
    /\ \E k \in Velocities : \E n \in AllNodes :
          distance[k][n] # FVALIN /\ flag[k][n] \in AppliedLabels
    /\ \E k \in Velocities : \E n \in AllNodes :
          distance[k][n] # FVALIN /\ flag[k][n] \in SeqRange(box_label)

(***************************************************************************)
(* C4                                                                       *)
(***************************************************************************)
\* C4: after Phase A, before any shape, for every axis d, each face of d that
\* is not an interface, every velocity k whose component c on d points out
\* through that face and every i in 0..|c|-1: every owned node of the i-th
\* layer counted inward from the face has distance[k] = (i + 1/2)/|c| and
\* flag[k] = the label of the face.
C4_BoxLayers ==
    (Seeded /\ ielem = 0) =>
        \A d \in 1..dim : \A k \in Velocities :
            LET c == stencil[k][d]
            IN \A i \in 0..(Abs(c) - 1) : \A n \in Interior :
                  /\ (c > 0 /\ box_label[2 * d] # interface /\ n[d] = Last(d) - i)
                        => /\ distance[k][n] = Frac(2 * i + 1, 2 * c)
                           /\ flag[k][n] = box_label[2 * d]
                  /\ (c < 0 /\ box_label[2 * d - 1] # interface /\ n[d] = First(d) + i)
                        => /\ distance[k][n] = Frac(2 * i + 1, -2 * c)
                           /\ flag[k][n] = box_label[2 * d - 1]

(***************************************************************************)
(* C5                                                                       *)
(***************************************************************************)
\* the owned nodes of this worker start at the lower face of the global box
\* on axis d / end at its upper face (coordinates are cell centres)
StartsAtGlobal(d) == 2 * coords_halo[d][First(d) + 1] - dx = 2 * phys_box[d][1]
EndsAtGlobal(d) == 2 * coords_halo[d][Last(d) + 1] + dx = 2 * phys_box[d][2]

Reclassified == pc \in {"add_init", "add_elem", "error"}

\* C5: for every worker and axis, the lower (upper) face label is the
\* interface label -2 exactly when the worker's range does not start at 0
\* (does not end at the global size); every other label is the user's.  Of
\* two workers along x, worker 0 has exactly its right face reclassified and
\* worker 1 exactly its left face.
C5_InterfaceLabels ==
    Reclassified =>
        /\ \A d \in 1..dim :
              /\ box_label[2 * d - 1] = interface <=> ~StartsAtGlobal(d)
              /\ box_label[2 * d] = interface <=> ~EndsAtGlobal(d)
              /\ StartsAtGlobal(d) => box_label[2 * d - 1] = geom_label[2 * d - 1]
              /\ EndsAtGlobal(d) => box_label[2 * d] = geom_label[2 * d]
        /\ (topo.nproc = <<2, 1>> /\ topo.coords = <<0, 0>>)
              => box_label = [geom_label EXCEPT ![2] = interface]
        /\ (topo.nproc = <<2, 1>> /\ topo.coords = <<1, 0>>)
              => box_label = [geom_label EXCEPT ![1] = interface]

\* worker 1 of two along x: only its left face is an interface
C5_Witness ==
    /\ Reclassified
    /\ topo.nproc = <<2, 1>> /\ topo.coords = <<1, 0>>
    /\ box_label[1] = interface
    /\ \A f \in 2..4 : box_label[f] = geom_label[f] /\ box_label[f] # interface

(***************************************************************************)
(* C6                                                                       *)
(***************************************************************************)
\* C6: Phase A writes nothing on account of an interface face: no flag entry
\* is -2, and after Phase A a link that leaves the owned nodes only through
\* interface faces keeps the sentinel in distance[k] and flag[k].
C6_InterfaceSkipped ==
    Seeded =>
        /\ \A k \in Velocities : \A n \in AllNodes : flag[k][n] # interface
        /\ ielem = 0 =>
              \A k \in Velocities : \A n \in Interior :
                 (Crossed(n, k) # {} /\ \A f \in Crossed(n, k) : box_label[f] = interface)
                    => distance[k][n] = FVALIN /\ flag[k][n] = valin

\* a link through the interface keeps the sentinel while a link through a
\* boundary face of the same worker holds that face's label
C6_Witness ==
    /\ Seeded /\ ielem = 0
    /\ \E k \in Velocities : \E n \in Interior :
          /\ Crossed(n, k) # {} /\ \A f \in Crossed(n, k) : box_label[f] = interface
          /\ distance[k][n] = FVALIN
    /\ \E k \in Velocities : \E n \in Interior :
          distance[k][n] # FVALIN /\ flag[k][n] \in SeqRange(geom_label)

(***************************************************************************)
(* C7                                                                       *)
(***************************************************************************)
\* axes of the global box whose extent is no multiple of dx
BadAxes == {k \in 1..dim : (phys_box[k][2] - phys_box[k][1]) % dx # 0}
Configured == pc \notin {"geom", "raised", "query", "cyl_query"}

\* C7: if the extent of some axis is no multiple of dx, construction aborts
\* at the first such axis, with no field allocated and nothing applied; if
\* every extent is a multiple, it does not abort.
C7_NonMultipleAborts ==
    Configured =>
        /\ BadAxes # {} =>
              /\ pc = "exit"
              /\ \A k \in BadAxes : Len(global_size) <= k
              /\ Len(global_size) \in BadAxes
              /\ in_or_out = NoField /\ distance = NoField /\ flag = NoField
              /\ coords_halo = <<>> /\ ielem = 0
        /\ BadAxes = {} => pc # "exit"

\* both extents are no multiple of dx and the loop stopped at axis 0
C7_Witness ==
    /\ pc = "exit" /\ BadAxes = {1, 2} /\ Len(global_size) = 1
    /\ in_or_out = NoField

(***************************************************************************)
(* C8                                                                       *)
(***************************************************************************)
\* C8: a Sphere constructor called with a negative radius does not return
\* (no Sphere without a radius, or with a negative one, reaches the list of
\* elements); called with a radius >= 0 it returns a Sphere holding that
\* radius.
C8_NegativeRadiusFatal ==
    /\ ctor.called =>
          /\ ctor.radius < 0 => ctor.raised /\ pc = "raised"
          /\ ctor.radius >= 0 =>
                /\ ~ctor.raised
                /\ "radius" \in DOMAIN ctor.self /\ ctor.self.radius = ctor.radius
                /\ list_elem # <<>> /\ list_elem[Len(list_elem)] = ctor.self
    /\ \A j \in 1..Len(list_elem) :
          "radius" \in DOMAIN list_elem[j] /\ list_elem[j].radius >= 0

\* a Sphere of radius 0 was accepted, then a negative radius was refused
C8_Witness ==
    /\ ctor.called /\ ctor.radius < 0 /\ ctor.raised /\ pc = "raised"
    /\ Len(list_elem) = 1 /\ list_elem[1].radius = 0

(***************************************************************************)
(* C9                                                                       *)
(***************************************************************************)
\* squared distance from p to the center of e
Dist2(e, p) == Dot(Sub(p, e.center), Sub(p, e.center))

\* C9: point_inside answers true for a point strictly inside the sphere,
\* true for a point on its surface and false for a point outside.
C9_PointInside ==
    pc = "query" =>
        LET e == query[1]
            p == query[2]
        IN /\ Dist2(e, p) < e.radius * e.radius => query[3] = TRUE
           /\ Dist2(e, p) = e.radius * e.radius => query[3] = TRUE
           /\ Dist2(e, p) > e.radius * e.radius => query[3] = FALSE

\* a point on the surface of a sphere of positive radius, off the plane z = 0
C9_Witness ==
    /\ pc = "query"
    /\ query[1].radius > 0 /\ query[2][3] # 0
    /\ Dist2(query[1], query[2]) = query[1].radius * query[1].radius
    /\ query[3] = TRUE

(***************************************************************************)
(* C10                                                                      *)
(***************************************************************************)
\* the fields as Phase A leaves them for this worker
PhaseA ==
    add_init(stencil, coords_halo, box_label,
             [k \in Velocities |-> [n \in AllNodes |-> FVALIN]],
             [k \in Velocities |-> [n \in AllNodes |-> valin]])

\* the two spheres have a point in common
Overlap(e1, e2) ==
    Dist2(e1, e2.center) <= (e1.radius + e2.radius) * (e1.radius + e2.radius)

\* candidate of shape e at node n along velocity k: <<alpha, border>>
Candidate(e, n, k) ==
    sphere_distance(e, point(coords_halo, n),
                    <<dx * stencil[k][1], dx * stencil[k][2], 0>>, FONE)

\* C10: after two overlapping solid shapes, at every fluid node whose
\* neighbour along k is OUT and from which both surfaces are crossed within
\* one step, distance[k] is the smallest of the two candidates and of the
\* box value; on a tie the earlier value and flag stay.
C10_NearestSolidWins ==
    (/\ Seeded /\ ielem = 2 /\ Len(list_elem) = 2
     /\ ~list_elem[1].isfluid /\ ~list_elem[2].isfluid
     /\ Overlap(list_elem[1], list_elem[2])) =>
        \A k \in Velocities : \A n \in Interior :
            LET c1 == Candidate(list_elem[1], n, k)
                c2 == Candidate(list_elem[2], n, k)
                a0 == PhaseA.distance[k][n]
                nb == <<n[1] + stencil[k][1], n[2] + stencil[k][2]>>
            IN (/\ NonZero(stencil[k])
                /\ in_or_out[n] = valin /\ in_or_out[nb] = valout
                /\ FPos(c1[1]) /\ FPos(c2[1])) =>
                   /\ distance[k][n] = FMin(a0, FMin(c1[1], c2[1]))
                   /\ flag[k][n] = IF ~FLess(c1[1], a0) /\ ~FLess(c2[1], a0)
                                   THEN PhaseA.flag[k][n]
                                   ELSE IF FLess(c2[1], c1[1]) THEN c2[2] ELSE c1[2]

\* the two solid shapes are applied and overlap
TwoSolids ==
    /\ Seeded /\ ielem = 2 /\ Len(list_elem) = 2
    /\ ~list_elem[1].isfluid /\ ~list_elem[2].isfluid
    /\ Overlap(list_elem[1], list_elem[2])

\* node nb was OUT already when the first shape was scanned: a halo node or
\* a node inside the first shape
OutSinceFirst(nb) == nb \notin Interior \/ point_inside(list_elem[1], point(coords_halo, nb))

\* C10 (amended): after two overlapping solid shapes, at every fluid node
\* whose neighbour along k was OUT when each of the two shapes was scanned
\* and from which both surfaces are crossed within one step, distance[k] is
\* the smallest of the two candidates and of the box value, with the flag of
\* the one that gave it; on a tie the earlier value and flag stay.
C10_NearestSolidWinsWhereOut ==
    TwoSolids =>
        \A k \in Velocities : \A n \in Interior :
            LET c1 == Candidate(list_elem[1], n, k)
                c2 == Candidate(list_elem[2], n, k)
                a0 == PhaseA.distance[k][n]
                nb == <<n[1] + stencil[k][1], n[2] + stencil[k][2]>>
            IN (/\ NonZero(stencil[k])
                /\ in_or_out[n] = valin /\ OutSinceFirst(nb)
                /\ FPos(c1[1]) /\ FPos(c2[1])) =>
                   /\ distance[k][n] = FMin(a0, FMin(c1[1], c2[1]))
                   /\ flag[k][n] = IF ~FLess(c1[1], a0) /\ ~FLess(c2[1], a0)
                                   THEN PhaseA.flag[k][n]
                                   ELSE IF FLess(c2[1], c1[1]) THEN c2[2] ELSE c1[2]

\* a link where the second shape is strictly nearer and has replaced the
\* value of the first
C10_Witness ==
    /\ TwoSolids
    /\ \E k \in Velocities : \E n \in Interior :
          LET c1 == Candidate(list_elem[1], n, k)
              c2 == Candidate(list_elem[2], n, k)
              nb == <<n[1] + stencil[k][1], n[2] + stencil[k][2]>>
          IN /\ NonZero(stencil[k])
             /\ in_or_out[n] = valin /\ OutSinceFirst(nb)
             /\ FPos(c1[1]) /\ FLess(c2[1], c1[1]) /\ FPos(c2[1])
             /\ FLess(c1[1], PhaseA.distance[k][n])
             /\ distance[k][n] = c2[1] /\ flag[k][n] = list_elem[2].label[1]

(***************************************************************************)
(* C11                                                                      *)
(***************************************************************************)
\* a solid shape, then a fluid shape of the same geometry, are applied
SolidThenFluid ==
    /\ Seeded /\ ielem = 2
    /\ ~list_elem[1].isfluid /\ list_elem[2].isfluid
    /\ list_elem[1].center = list_elem[2].center
    /\ list_elem[1].radius = list_elem[2].radius

\* owned nodes inside the element e
Covered(e) == {n \in Interior : point_inside(e, point(coords_halo, n))}

\* node reached from n in one step along velocity k
Neighbour(n, k) == <<n[1] + stencil[k][1], n[2] + stencil[k][2]>>

\* C11: after a solid shape and then a fluid shape of the same geometry,
\* every owned node of the overlap is IN, and distance[k] and flag[k] hold
\* the sentinel, for every non-zero velocity k, at the nodes of the overlap
\* and at the owned nodes whose neighbour along k is in the overlap.
C11_SolidThenFluidResets ==
    SolidThenFluid =>
        LET cov == Covered(list_elem[1])
        IN /\ \A n \in cov : in_or_out[n] = valin
           /\ \A k \in Velocities : \A n \in Interior :
                 (NonZero(stencil[k]) /\ (n \in cov \/ Neighbour(n, k) \in cov))
                    => distance[k][n] = FVALIN /\ flag[k][n] = valin

(***************************************************************************)
(* C12                                                                      *)
(***************************************************************************)
\* a step of the loop over list_elem that ends without an exception
ShapeStep == pc = "add_elem" /\ ielem' = ielem + 1 /\ pc' = "add_elem"

\* the nodes of the view "phys_domain" of Phase A
Owned == slice_nodes(phys_slice(stencil, coords_halo))

\* the occupancy as Phase A leaves it
HaloOccupancy == init_in_or_out(coords_halo, phys_slice(stencil, coords_halo))

\* C12: Phase A is complete before any shape is applied; the shapes are
\* applied one at a time in the order of the list; the occupancy that the
\* neighbour test of shape j reads is the one after shape j was put in it:
\* it is OUT only in the halo and inside the solid shapes 1..j, every entry
\* shape j records points at a node that is OUT in it, and a solid shape j
\* records the links that enter shape j itself.
C12_ShapesInOrder ==
    [][ /\ (pc' = "add_elem" /\ pc # "add_elem") => (pc = "add_init" /\ ielem' = 0)
        /\ (pc = "add_init" => UNCHANGED ielem)
        /\ (ielem' # ielem => (pc = "add_elem" /\ ielem' = ielem + 1))
        /\ ((pc = "add_elem" /\ <<in_or_out, distance, flag>>' # <<in_or_out, distance, flag>>)
               => ielem' = ielem + 1)
        /\ ShapeStep =>
              LET e == list_elem[ielem']
              IN /\ \A n \in AllNodes :
                       in_or_out'[n] = valout =>
                          \/ HaloOccupancy[n] = valout
                          \/ \E j \in 1..ielem' :
                                /\ ~list_elem[j].isfluid
                                /\ point_inside(list_elem[j], point(coords_halo, n))
                 /\ \A k \in Velocities : \A n \in AllNodes :
                       (distance'[k][n] # distance[k][n] /\ distance'[k][n] # FVALIN)
                          => /\ Neighbour(n, k) \in AllNodes
                             /\ in_or_out'[Neighbour(n, k)] = valout
                 /\ ~e.isfluid =>
                       \A k \in Velocities : \A n \in Owned :
                          ( /\ NonZero(stencil[k])
                            /\ ~point_inside(e, point(coords_halo, n))
                            /\ Neighbour(n, k) \in Owned
                            /\ point_inside(e, point(coords_halo, Neighbour(n, k))) )
                             => distance'[k][n] # FVALIN
      ]_vars

\* the second of two different shapes is solid and has recorded a link that
\* enters it
C12_Witness ==
    /\ Seeded /\ ielem = 2
    /\ list_elem[1].center # list_elem[2].center
    /\ ~list_elem[2].isfluid
    /\ \E k \in Velocities : \E n \in Interior :
          /\ NonZero(stencil[k])
          /\ flag[k][n] = list_elem[2].label[1]
          /\ Neighbour(n, k) \in Interior
          /\ in_or_out[Neighbour(n, k)] = valout
          /\ point_inside(list_elem[2], point(coords_halo, Neighbour(n, k)))

(***************************************************************************)
(* C13                                                                      *)
(***************************************************************************)
\* C13: after Phase A and after every completely applied shape, for every
\* non-zero velocity k and every node whose occupancy is IN, a distance[k]
\* that is not the sentinel means that the neighbour one step along k is OUT.
C13_RecordedLinkEntersOut ==
    Seeded => \A k \in Velocities : \A n \in AllNodes :
                 (NonZero(stencil[k]) /\ in_or_out[n] = valin /\ distance[k][n] # FVALIN)
                    => /\ Neighbour(n, k) \in AllNodes
                       /\ in_or_out[Neighbour(n, k)] = valout

\* a solid shape covered the neighbour of an owned node that lies outside it,
\* a fluid shape that does not cover the node either has made the neighbour
\* fluid again, and the entry of the link is back at the sentinel
C13_Witness ==
    /\ Seeded /\ ielem = 2
    /\ ~list_elem[1].isfluid /\ list_elem[2].isfluid
    /\ \E k \in Velocities : \E n \in Interior :
          /\ NonZero(stencil[k])
          /\ Neighbour(n, k) \in Interior
          /\ \A j \in 1..2 :
                /\ ~point_inside(list_elem[j], point(coords_halo, n))
                /\ point_inside(list_elem[j], point(coords_halo, Neighbour(n, k)))
          /\ in_or_out[n] = valin /\ in_or_out[Neighbour(n, k)] = valin
          /\ distance[k][n] = FVALIN
    /\ \E k \in Velocities : \E n \in Interior :
          /\ NonZero(stencil[k])
          /\ in_or_out[n] = valin /\ distance[k][n] # FVALIN
          /\ in_or_out[Neighbour(n, k)] = valout

(***************************************************************************)
(* C14                                                                      *)
(***************************************************************************)
\* the answer of a cylinder query, and the point p + alpha*v it designates,
\* relative to the centre and multiplied by the denominator of alpha
CylAnswered == pc = "cyl_query" /\ FPos(query[4][1])
HitX == (query[2][1] - query[1].center[1]) * query[4][1][2] + query[4][1][1] * query[3][1]
HitZ == (query[2][3] - query[1].center[3]) * query[4][1][2] + query[4][1][1] * query[3][3]
OnTop == HitZ = query[1].w[3] * query[4][1][2]
OnBottom == HitZ = -(query[1].w[3] * query[4][1][2])
OnSide == Abs(HitX) = query[1].v1[1] * query[4][1][2]

\* C14: with a list of three labels, a hit on the bottom cap (z' = -1) is
\* reported with label[0], a hit on the top cap (z' = +1) with label[1] and a
\* hit on the lateral surface with label[2].
C14_LabelOrder ==
    CylAnswered =>
        /\ (OnBottom /\ ~OnSide) => query[4][2] = query[1].label[1]
        /\ (OnTop /\ ~OnSide) => query[4][2] = query[1].label[2]
        /\ (OnSide /\ ~OnTop /\ ~OnBottom) => query[4][2] = query[1].label[3]

(***************************************************************************)
(* C15                                                                      *)
(***************************************************************************)
\* the crossings of the ray with the lateral surface and the two caps that
\* the claim counts: t in (0, dmax], the lateral one not beyond the caps,
\* the cap ones inside the base
ValidCrossings(c, p, v, dmax) ==
    LET a == c.v1[1]
        h == c.w[3]
        X == p[1] - c.center[1]
        Z == p[3] - c.center[3]
        lat == Base_distance(a, X, v[1], dmax, c.label)[1]
        caps == IF v[3] = 0 THEN {} ELSE {Frac2(h - Z, v[3]), Frac2(-(h + Z), v[3])}
    IN {t \in {lat} : FPos(t) /\ Abs(Z * t[2] + t[1] * v[3]) <= h * t[2]}
       \cup {t \in caps : /\ FPos(t) /\ ~FLess(dmax, t)
                           /\ Base_point_inside(X * t[2] + t[1] * v[1], a * t[2])}

\* C15: the distance a cylinder returns is the smallest of the valid
\* crossings (lateral, top cap, bottom cap) with t in (0, max_step], and -1
\* when there is none: a cap crossed beyond max_step is not reported.
C15_MinValidCrossing ==
    pc = "cyl_query" =>
        LET valid == ValidCrossings(query[1], query[2], query[3], FONE)
        IN IF valid = {} THEN query[4][1] = FNONE
           ELSE /\ query[4][1] \in valid
                /\ \A t \in valid : ~FLess(t, query[4][1])

(***************************************************************************)
(* C16                                                                      *)
(***************************************************************************)
\* the loop over list_elem is about to apply the element e
Pending == pc = "add_elem" /\ ielem < Len(list_elem) /\ ~add_elem_raises(coords_halo)
NextBox == elem_box(stencil, coords_halo, coords, dx, list_elem[ielem + 1])

\* C16: for the shape about to be applied, wherever its bounding box lies,
\* and for every velocity, the bounds of the sub-grid shifted by the velocity
\* are indices of the halo-padded array on every axis (not negative, not
\* beyond its length), and the shifted view has the shape of the sub-grid.
C16_NeighbourInArray ==
    Pending =>
        \A k \in Velocities :
           /\ \A d \in 1..dim :
                 /\ 0 <= NextBox[1][d] + stencil[k][d]
                 /\ 0 <= NextBox[2][d] + stencil[k][d]
                 /\ NextBox[1][d] + stencil[k][d] <= Len(coords_halo[d])
                 /\ NextBox[2][d] + stencil[k][d] <= Len(coords_halo[d])
           /\ same_shape(space_slice(coords_halo, NextBox, <<0, 0>>),
                         space_slice(coords_halo, NextBox, stencil[k]))

(***************************************************************************)
(* C17                                                                      *)
(***************************************************************************)
\* the scenario: the box [0,4]x[0,4] with dx = 1 in units of dx/2 (box
\* [0,8]x[0,8], step 2), one worker, the velocities (0,0), (1,0), (0,1),
\* (-1,0), (0,-1), and one solid sphere of radius 0.5 (1 in units of dx/2)
\* applied
OneSolidSphere(centre) ==
    /\ Seeded /\ ielem = 1 /\ Len(list_elem) = 1
    /\ phys_box = Box(8, 8) /\ dx = 2 /\ topo = Single /\ stencil = St_q5
    /\ ~list_elem[1].isfluid
    /\ list_elem[1].center = centre /\ list_elem[1].radius = 1

\* the node one step against velocity k from the centre of the sphere has
\* distance 1/2 and the label of the sphere for k
TowardCentre(k) ==
    \E n \in AllNodes :
       /\ point(coords_halo, n) = <<list_elem[1].center[1] - dx * stencil[k][1],
                                     list_elem[1].center[2] - dx * stencil[k][2], 0>>
       /\ distance[k][n] = <<1, 2>>
       /\ flag[k][n] = list_elem[1].label[1]

\* C17: in the box [0,4]x[0,4] with dx = 1, after a solid sphere of radius
\* 0.5 centred at (2,2), each of the four points at distance 1 from (2,2)
\* along the axes is a node that has distance 0.5 for the velocity pointing
\* toward the centre, and the sphere's label as flag for that velocity.
C17_SphereAtTwoTwo ==
    OneSolidSphere(<<4, 4, 0>>) =>
        \A k \in Velocities : NonZero(stencil[k]) => TowardCentre(k)

\* C17 as the code has it: the nodes are the cell centres 0.5, 1.5, 2.5, 3.5,
\* the sphere centred at (2,2) holds no node and leaves the three fields as
\* Phase A left them; centred at the node (1.5,1.5), each of its four
\* neighbour nodes has distance 0.5 and the sphere's label for the velocity
\* pointing toward the centre.
C17_SphereAtNode ==
    /\ OneSolidSphere(<<4, 4, 0>>) =>
          /\ coords = << <<1, 3, 5, 7>>, <<1, 3, 5, 7>> >>
          /\ in_or_out = HaloOccupancy
          /\ distance = PhaseA.distance /\ flag = PhaseA.flag
    /\ OneSolidSphere(<<3, 3, 0>>) =>
          \A k \in Velocities : NonZero(stencil[k]) => TowardCentre(k)

C17_Witness ==
    /\ OneSolidSphere(<<3, 3, 0>>)
    /\ in_or_out[<<2, 2>>] = valout
    /\ distance[2][<<1, 2>>] = <<1, 2>> /\ flag[2][<<1, 2>>] = ElemLabels[1]

(***************************************************************************)
(* C18                                                                      *)
(***************************************************************************)
\* an iteration of the loop over list_elem, finished or ended by an exception
\* of the loop over the velocities
ShapeApplied == pc = "add_elem" /\ ielem' = ielem + 1 /\ ~add_elem_raises(coords_halo)

\* C18: applying one shape sets the occupancy of every node of its sub-grid
\* that is inside the shape (OUT for a solid shape, IN for a fluid shape) and
\* leaves the occupancy of every other node as it was; the nodes of the
\* sub-grid inside the shape are the owned nodes inside the shape.
C18_OccupancyUpdate ==
    [][ ShapeApplied =>
          LET e == list_elem[ielem']
          IN \A n \in AllNodes :
                in_or_out'[n] =
                   IF n \in Owned /\ point_inside(e, point(coords_halo, n))
                   THEN (IF e.isfluid THEN valin ELSE valout)
                   ELSE in_or_out[n]
      ]_vars

\* a fluid shape has turned a node of an earlier solid shape IN and left
\* another node of the solid shape, outside the fluid shape, OUT
C18_Witness ==
    /\ Seeded /\ ielem = 2
    /\ ~list_elem[1].isfluid /\ list_elem[2].isfluid
    /\ \E n \in Interior :
          /\ point_inside(list_elem[1], point(coords_halo, n))
          /\ point_inside(list_elem[2], point(coords_halo, n))
          /\ in_or_out[n] = valin
    /\ \E n \in Interior :
          /\ point_inside(list_elem[1], point(coords_halo, n))
          /\ ~point_inside(list_elem[2], point(coords_halo, n))
          /\ in_or_out[n] = valout

(***************************************************************************)
(* C19                                                                      *)
(***************************************************************************)
\* the candidate of element e at node n for velocity k
Alpha(e, n, k) ==
    sphere_distance(e, point(coords_halo, n),
                    <<dx * stencil[k][1], dx * stencil[k][2], 0>>, FONE)[1]

\* C19: when a fluid shape is applied, at every node of its sub-grid that is
\* inside the shape, has a candidate alpha > 0 for velocity k and whose
\* neighbour along k is OUT, the candidate is committed if and only if the
\* stored distance[k] is the sentinel or alpha is strictly larger than it:
\* then distance[k] becomes alpha and flag[k] the label of the shape;
\* otherwise distance[k] (not smaller than alpha) and flag[k] stay as stored.
C19_FluidCommit ==
    [][ (ShapeApplied /\ pc' = "add_elem" /\ list_elem[ielem'].isfluid) =>
          LET e == list_elem[ielem']
          IN \A k \in Velocities : \A n \in Owned :
                ( /\ NonZero(stencil[k])
                  /\ point_inside(e, point(coords_halo, n))
                  /\ FPos(Alpha(e, n, k))
                  /\ in_or_out'[Neighbour(n, k)] = valout )
                   => IF distance[k][n] = FVALIN \/ FLess(distance[k][n], Alpha(e, n, k))
                      THEN /\ distance'[k][n] = Alpha(e, n, k)
                           /\ flag'[k][n] = e.label[1]
                      ELSE /\ distance'[k][n] = distance[k][n]
                           /\ flag'[k][n] = flag[k][n]
                           /\ ~FLess(distance[k][n], Alpha(e, n, k))
      ]_vars

\* a fluid shape, the first of the list, has replaced a value of Phase A by
\* its own, larger, candidate
C19_Witness ==
    /\ Seeded /\ ielem = 1 /\ list_elem[1].isfluid
    /\ \E k \in Velocities : \E n \in Interior :
          /\ NonZero(stencil[k])
          /\ point_inside(list_elem[1], point(coords_halo, n))
          /\ in_or_out[Neighbour(n, k)] = valout
          /\ PhaseA.distance[k][n] # FVALIN
          /\ FLess(PhaseA.distance[k][n], Alpha(list_elem[1], n, k))
          /\ distance[k][n] = Alpha(list_elem[1], n, k)
          /\ flag[k][n] = list_elem[1].label[1]

(***************************************************************************)
(* C20                                                                      *)
(***************************************************************************)
\* the node n lies in the bounding box of e expanded by vmax nodes per axis
InExpandedBox(e, n) ==
    \A d \in 1..dim :
       /\ point(coords_halo, n)[d] + vmax(stencil)[d] * dx >= get_bounds(e)[1][d]
       /\ point(coords_halo, n)[d] - vmax(stencil)[d] * dx <= get_bounds(e)[2][d]

\* C20: applying a shape, wherever it lies, leaves occupancy, distance and
\* flag as they were at every node outside the bounding box of the shape
\* expanded by vmax nodes per axis, and leaves the distance and the flag of
\* the zero velocity as they were at every node.
C20_Frame ==
    [][ (pc = "add_elem" /\ ielem' = ielem + 1) =>
          LET e == list_elem[ielem']
          IN /\ \A n \in AllNodes :
                   ~InExpandedBox(e, n) =>
                      /\ in_or_out'[n] = in_or_out[n]
                      /\ \A k \in Velocities :
                            /\ distance'[k][n] = distance[k][n]
                            /\ flag'[k][n] = flag[k][n]
             /\ \A k \in Velocities :
                   ~NonZero(stencil[k]) =>
                      (distance'[k] = distance[k] /\ flag'[k] = flag[k])
      ]_vars

\* a shape has recorded links, and an owned node outside its expanded box
\* still holds the value Phase A gave it
C20_Witness ==
    /\ Seeded /\ ielem = 1
    /\ \E k \in Velocities : \E m \in Interior : flag[k][m] = list_elem[1].label[1]
    /\ \E k \in Velocities : \E n \in Interior :
          /\ ~InExpandedBox(list_elem[1], n)
          /\ distance[k][n] # FVALIN
          /\ distance[k][n] = PhaseA.distance[k][n]

(***************************************************************************)
(* C21                                                                      *)
(***************************************************************************)
\* create_coords has returned
Meshed == pc \in {"region", "add_init", "add_elem", "error"}

\* the index range of this worker on axis d: <<r0, r1>>
Region(d) == get_region(topo, [j \in 1..dim |-> global_size[j][1]])[d]
RegionSize(d) == Region(d)[2] - Region(d)[1]

\* C21: on every axis d, also one on which vmax is 0, coords_halo has
\* region_size + 2*vmax nodes spaced by dx that start dx*(vmax - 1/2) before
\* the physical start of the region, coords is coords_halo without vmax
\* nodes at each end, i.e. the region_size cell centres
\* lo + dx*(r0 + j + 1/2), and Phase A sets IN exactly the nodes that are
\* not among the vmax first or last on some axis.
C21_Coordinates ==
    Meshed =>
        /\ \A d \in 1..dim :
              LET h == vmax(stencil)[d]
                  lo == phys_box[d][1] + dx * Region(d)[1]
              IN /\ Len(coords_halo[d]) = RegionSize(d) + 2 * h
                 /\ \A j \in 1..Len(coords_halo[d]) :
                       2 * coords_halo[d][j] = 2 * lo - dx * (2 * h - 1) + 2 * dx * (j - 1)
                 /\ Len(coords[d]) = RegionSize(d)
                 /\ \A j \in 1..Len(coords[d]) :
                       /\ coords[d][j] = coords_halo[d][j + h]
                       /\ 2 * coords[d][j] = 2 * lo + dx * (2 * (j - 1) + 1)
        /\ pc = "add_elem" /\ ielem = 0 =>
              \A n \in AllNodes : (in_or_out[n] = valin) <=> (n \in Interior)

(***************************************************************************)
(* C22                                                                      *)
(***************************************************************************)
\* no face of the box of this worker is an interface with another worker
NoInterface == \A f \in 1..Len(box_label) : box_label[f] # interface

\* C22: without interface faces, after Phase A and after every completely
\* applied shape, every node whose occupancy is IN and whose neighbour one
\* step along a non-zero velocity k is OUT has a distance[k] and a flag[k]
\* that are not the sentinel.
C22_LinkRecorded ==
    (Seeded /\ NoInterface) =>
        \A k \in Velocities : \A n \in AllNodes :
           ( /\ NonZero(stencil[k])
             /\ in_or_out[n] = valin
             /\ Neighbour(n, k) \in AllNodes
             /\ in_or_out[Neighbour(n, k)] = valout )
              => (distance[k][n] # FVALIN /\ flag[k][n] # valin)

(***************************************************************************)
(* C23                                                                      *)
(***************************************************************************)
\* the halo: the vmax first and last nodes of each axis
Halo == AllNodes \ Interior

\* C23: after Phase A and after every completely applied shape, solid or
\* fluid, every node of the halo has occupancy OUT and the sentinel as
\* distance and as flag for every velocity.
C23_HaloUntouched ==
    Seeded => \A n \in Halo :
                 /\ in_or_out[n] = valout
                 /\ \A k \in Velocities :
                       distance[k][n] = FVALIN /\ flag[k][n] = valin

\* a fluid shape that holds a node of the halo and an owned node has been
\* applied after a solid one that held the owned node
C23_Witness ==
    /\ Seeded /\ ielem = 2
    /\ ~list_elem[1].isfluid /\ list_elem[2].isfluid
    /\ \E n \in Halo :
          /\ point_inside(list_elem[2], point(coords_halo, n))
          /\ in_or_out[n] = valout
    /\ \E n \in Interior :
          /\ point_inside(list_elem[1], point(coords_halo, n))
          /\ point_inside(list_elem[2], point(coords_halo, n))
          /\ in_or_out[n] = valin

(***************************************************************************)
(* C24                                                                      *)
(***************************************************************************)
\* the axes on which velocity k leaves the box from node n through a face
\* that is a boundary: the component points outward and the node is in one
\* of the |component| layers counted inward from the face
OutwardAxes(n, k) ==
    {d \in 1..dim :
        LET c == stencil[k][d]
        IN \/ c > 0 /\ box_label[2 * d] # interface /\ Last(d) - n[d] < c
           \/ c < 0 /\ box_label[2 * d - 1] # interface /\ n[d] - First(d) < -c}

\* the value (i + 1/2)/|component| of axis d, and the label of its face
AxisValue(n, k, d) ==
    IF stencil[k][d] > 0
    THEN Frac(2 * (Last(d) - n[d]) + 1, 2 * stencil[k][d])
    ELSE Frac(2 * (n[d] - First(d)) + 1, -2 * stencil[k][d])
AxisLabel(k, d) == IF stencil[k][d] > 0 THEN box_label[2 * d] ELSE box_label[2 * d - 1]

\* the axis that gives the smallest value, the lowest one on a tie
MinAxis(n, k) ==
    CHOOSE d \in OutwardAxes(n, k) :
       \A j \in OutwardAxes(n, k) :
          /\ ~FLess(AxisValue(n, k, j), AxisValue(n, k, d))
          /\ (j < d => FLess(AxisValue(n, k, d), AxisValue(n, k, j)))

SeveralAxes(k) == Cardinality({d \in 1..dim : stencil[k][d] # 0}) > 1

\* C24: after Phase A, for a velocity with components on several axes, the
\* value stored at an owned node is the minimum over the axes on which the
\* velocity leaves the box from that node of (i + 1/2)/|component|, with the
\* label of the face that gives the minimum, the one of the lowest axis on
\* an exact tie; it is the sentinel where the velocity does not leave the box.
C24_MinOverAxes ==
    (Seeded /\ ielem = 0) =>
        \A k \in Velocities : \A n \in Interior :
           SeveralAxes(k) =>
              IF OutwardAxes(n, k) = {}
              THEN distance[k][n] = FVALIN /\ flag[k][n] = valin
              ELSE /\ distance[k][n] = AxisValue(n, k, MinAxis(n, k))
                   /\ flag[k][n] = AxisLabel(k, MinAxis(n, k))

\* velocity (1,1) at the top-right corner: 1/2 on both axes, the label of
\* the right face; velocity (-1,2) at the top-left corner: 1/4 from the top
\* face has replaced 1/2 from the left face
C24_Witness ==
    /\ Seeded /\ ielem = 0 /\ NoInterface /\ stencil = St_w
    /\ distance[1][<<Last(1), Last(2)>>] = <<1, 2>>
    /\ flag[1][<<Last(1), Last(2)>>] = box_label[2]
    /\ distance[3][<<First(1), Last(2)>>] = <<1, 4>>
    /\ flag[3][<<First(1), Last(2)>>] = box_label[4]

====
